---- MODULE Spec2Model ----
(***************************************************************************)
(* A model of the OpenTTD savegame reader (src/src/reader.rs, main.rs).    *)
(*                                                                         *)
(* Bytes are integers 0..255 and byte buffers are sequences of bytes.      *)
(* A Rust panic ends the program: it is modelled by setting `status' to    *)
(* the kind of the panic, after which no operation is enabled.             *)
(* A u32 is kept as two 16-bit limbs [hi, lo] (value hi * 65536 + lo), so  *)
(* that every 32-bit value up to 2^32 - 1 is represented exactly.          *)
(***************************************************************************)
EXTENDS Integers, Sequences, FiniteSets, TLC

VARIABLES
    file,     \* the bytes of the file at Savegame.path
    codec,    \* what the external zlib/xz decoder yields for the file's payload
    sg,       \* the Savegame value: [version, data]
    saved,    \* what save() wrote to another path: [written, bytes]
    reader,   \* a DataReader: [data, position, size]
    ret,      \* the last call: [op, arg, from (the position it began at), val]
    chunk,    \* the SavegameChunk read_chunk returned last: [some, label, chunk_type, data]
    keys,     \* the header map handle_table decoded last: [some, map]
    status    \* "ok", or the kind of the panic that ended the program

vars == <<file, codec, sg, saved, reader, ret, chunk, keys, status>>

----------------------------------------------------------------------------
(* Bounds of the model.                                                    *)

MaxPad == 2
MaxRead == 2
MaxPayload == 2

----------------------------------------------------------------------------
(* Helpers.                                                                *)

Min(a, b) == IF a < b THEN a ELSE b

\* bit k of a byte: (byte >> k) & 1
Bit(byte, k) == (byte \div (2 ^ k)) % 2

\* a u32 as two 16-bit limbs
U32(hi, lo) == [hi |-> hi, lo |-> lo]

\* `x as usize` of a u32 that fits the model's integers
AsUsize(v) == v.hi * 65536 + v.lo

Ok(r, v) == [rd |-> r, val |-> v, err |-> "none"]
Panic(r, kind) == [rd |-> r, val |-> << >>, err |-> kind]

\* a panic unwinds through the caller: the rest of the caller, F, runs only
\* on the result of a call that returned
Then(res, F(_)) == IF res.err # "none" THEN res ELSE F(res)

----------------------------------------------------------------------------
(* DataReader (reader.rs 97-185).                                          *)

DataReader_new(data) == [data |-> data, position |-> 0, size |-> Len(data)]

\* `self.size - start` overflows when start > size: a panic in a debug build;
\* in a release build it wraps, the requested size survives the min, and the
\* slice data[start..start+size] panics.  Both builds end in a panic.
DataReader_load(r, start, size) ==
    IF size = 0 THEN Ok(r, << >>)
    ELSE IF start > r.size THEN Panic(r, "OutOfBounds")
    ELSE Ok([r EXCEPT !.position = start],
            SubSeq(r.data, start + 1, start + Min(size, r.size - start)))

\* data[0] panics (index out of bounds) when load returned nothing
DataReader_read_byte(r) ==
    Then(DataReader_load(r, r.position, 1), LAMBDA l :
        IF Len(l.val) = 0
        THEN Panic([l.rd EXCEPT !.position = l.rd.position + 1], "OutOfBounds")
        ELSE Ok([l.rd EXCEPT !.position = l.rd.position + 1], l.val[1]))

DataReader_read_bytes(r, size) ==
    Then(DataReader_load(r, r.position, size), LAMBDA l :
        Ok([l.rd EXCEPT !.position = l.rd.position + size], l.val))

\* `self.size - self.position` overflows when position > size (debug panic;
\* the wrapped length makes the slice panic in a release build)
DataReader_read_leftover_bytes(r) ==
    IF r.position > r.size THEN Panic(r, "OutOfBounds")
    ELSE Then(DataReader_load(r, r.position, r.size - r.position), LAMBDA l :
            Ok([l.rd EXCEPT !.position = l.rd.size], l.val))

DataReader_read_all_bytes(r) == Ok(r, r.data)

\* k successive read_byte calls: the bytes read, or the first panic
RECURSIVE ReadByteSeq(_, _)
ReadByteSeq(r, k) ==
    IF k = 0 THEN Ok(r, << >>)
    ELSE Then(DataReader_read_byte(r), LAMBDA b :
            Then(ReadByteSeq(b.rd, k - 1), LAMBDA rest :
                Ok(rest.rd, <<b.val>> \o rest.val)))

\* a variant that masks the continuation bytes with & 0b00111111
GammaValueMasked(byte, c) ==
    CASE Len(c) = 0 -> U32(0, byte)
      [] Len(c) = 1 -> U32(0, (byte % 64) * 256 + (c[1] % 64))
      [] Len(c) = 2 -> U32(byte % 32, (c[1] % 64) * 256 + (c[2] % 64))
      [] Len(c) = 3 -> U32((byte % 16) * 256 + (c[1] % 64),
                           (c[2] % 64) * 256 + (c[3] % 64))
      [] Len(c) = 4 -> U32((c[1] % 64) * 256 + (c[2] % 64),
                           (c[3] % 64) * 256 + (c[4] % 64))

\* the value of a gamma whose first byte is `byte' and whose continuation
\* bytes are c; the shifted fields are disjoint, so | is +
GammaValue(byte, c) ==
    CASE Len(c) = 0 -> U32(0, byte)
      [] Len(c) = 1 -> U32(0, (byte % 64) * 256 + c[1])
      [] Len(c) = 2 -> U32(byte % 32, c[1] * 256 + c[2])
      [] Len(c) = 3 -> U32((byte % 16) * 256 + c[1], c[2] * 256 + c[3])
      [] Len(c) = 4 -> U32(c[1] * 256 + c[2], c[3] * 256 + c[4])

\* the number of continuation bytes the first byte announces; 5 stands for
\* the prefix 11111, which read_gamma rejects
GammaExtra(byte) ==
    IF Bit(byte, 7) = 0 THEN 0
    ELSE IF Bit(byte, 6) = 0 THEN 1
    ELSE IF Bit(byte, 5) = 0 THEN 2
    ELSE IF Bit(byte, 4) = 0 THEN 3
    ELSE IF Bit(byte, 3) = 0 THEN 4
    ELSE 5

\* returns <<value, bytes consumed>>
DataReader_read_gamma(r) ==
    Then(DataReader_read_byte(r), LAMBDA b :
        IF GammaExtra(b.val) = 5 THEN Panic(b.rd, "MalformedGamma")
        ELSE Then(ReadByteSeq(b.rd, GammaExtra(b.val)), LAMBDA c :
                Ok(c.rd, <<GammaValue(b.val, c.val), Len(c.val) + 1>>)))

----------------------------------------------------------------------------
(* DataHandler (reader.rs 228-348).                                        *)

\* a continuation byte of a UTF-8 sequence at s[j]
Utf8Cont(s, j) == j <= Len(s) /\ s[j] >= 128 /\ s[j] <= 191

\* String::from_utf8 succeeds on s[i..]
RECURSIVE Utf8From(_, _)
Utf8From(s, i) ==
    IF i > Len(s) THEN TRUE
    ELSE IF s[i] <= 127 THEN Utf8From(s, i + 1)
    ELSE IF s[i] >= 194 /\ s[i] <= 223 THEN Utf8Cont(s, i + 1) /\ Utf8From(s, i + 2)
    ELSE IF s[i] >= 224 /\ s[i] <= 239 THEN
        /\ Utf8Cont(s, i + 1) /\ Utf8Cont(s, i + 2)
        /\ (s[i] = 224 => s[i + 1] >= 160)
        /\ (s[i] = 237 => s[i + 1] <= 159)
        /\ Utf8From(s, i + 3)
    ELSE IF s[i] >= 240 /\ s[i] <= 244 THEN
        /\ Utf8Cont(s, i + 1) /\ Utf8Cont(s, i + 2) /\ Utf8Cont(s, i + 3)
        /\ (s[i] = 240 => s[i + 1] >= 144)
        /\ (s[i] = 244 => s[i + 1] <= 143)
        /\ Utf8From(s, i + 4)
    ELSE FALSE

IsUtf8(s) == Utf8From(s, 1)

\* the Value a tag's low nibble names (first << 4 >> 4 on a u8)
ValueOf(first) ==
    CASE first % 16 = 1 -> "I8"
      [] first % 16 = 2 -> "U8"
      [] first % 16 = 3 -> "I16"
      [] first % 16 = 4 -> "U16"
      [] first % 16 = 5 -> "I32"
      [] first % 16 = 6 -> "U32"
      [] first % 16 = 7 -> "I64"
      [] first % 16 = 8 -> "U64"
      [] first % 16 = 9 -> "StringID"
      [] first % 16 = 10 -> "String"
      [] first % 16 = 11 -> "Struct"
      [] OTHER -> "unknown"

\* HashMap<String, (Value, bool)>: a function from the keys to the values
EmptyMap == [k \in {} |-> 0]

MapInsert(m, k, v) == [x \in DOMAIN m \cup {k} |-> IF x = k THEN v ELSE m[x]]

\* the loop of read_table_entries, `entries' being the map so far
RECURSIVE TableEntriesLoop(_, _)
TableEntriesLoop(tr, entries) ==
    Then(DataReader_read_byte(tr), LAMBDA first :
        IF first.val = 0 THEN Ok(first.rd, entries)
        ELSE IF ValueOf(first.val) = "unknown" THEN Panic(first.rd, "UnknownFieldType")
        ELSE Then(DataReader_read_gamma(first.rd), LAMBDA second :
             Then(DataReader_read_bytes(second.rd, AsUsize(second.val[1])), LAMBDA key :
                IF ~IsUtf8(key.val) THEN Panic(key.rd, "InvalidEncoding")
                ELSE TableEntriesLoop(key.rd,
                        MapInsert(entries, key.val,
                                  <<ValueOf(first.val), Bit(first.val, 4) = 1>>)))))

read_table_entries(table_reader) == TableEntriesLoop(table_reader, EmptyMap)

\* read_table_header: read_table_entries, printed; read_subtables is never called
read_table_header(table_reader) == read_table_entries(table_reader)

handle_riff == << >>

handle_sparse_table == << >>

NoKeys == [some |-> FALSE, map |-> EmptyMap]

\* val is <<headers, keys>>: the bytes returned and the map printed; a panic
\* of the header's reader ends the call with the handler's reader as it is
handle_table(r) ==
    Then(DataReader_read_gamma(r), LAMBDA header_size :
    Then(DataReader_read_bytes(header_size.rd, AsUsize(header_size.val[1])), LAMBDA headers :
    Then([read_table_header(DataReader_new(headers.val)) EXCEPT !.rd = headers.rd],
         LAMBDA k : Ok(headers.rd, <<headers.val, [some |-> TRUE, map |-> k.val]>>))))

ChunkType(tag) ==
    CASE tag = 0 -> "Riff"
      [] tag = 1 -> "Array"
      [] tag = 2 -> "SparseArray"
      [] tag = 3 -> "Table"
      [] tag = 4 -> "SparseTable"
      [] OTHER -> "unknown"

\* the second match of read_chunk: the payload of a chunk of a known kind
ChunkData(chunk_type, r) ==
    CASE chunk_type = "Riff" -> Ok(r, <<handle_riff, NoKeys>>)
      [] chunk_type = "Array" -> Panic(r, "UnsupportedChunkKind")
      [] chunk_type = "SparseArray" -> Panic(r, "UnsupportedChunkKind")
      [] chunk_type = "Table" -> handle_table(r)
      [] chunk_type = "SparseTable" -> Ok(r, <<handle_sparse_table, NoKeys>>)

\* val is <<chunk, keys>>; the label is converted last, after the payload
read_chunk(r) ==
    Then(DataReader_read_bytes(r, 4), LAMBDA chunk_label :
    Then(DataReader_read_byte(chunk_label.rd), LAMBDA tag :
        IF ChunkType(tag.val) = "unknown" THEN Panic(tag.rd, "UnknownChunkKind")
        ELSE Then(ChunkData(ChunkType(tag.val), tag.rd), LAMBDA data :
            IF ~IsUtf8(chunk_label.val)
            THEN [rd |-> data.rd, val |-> <<0, data.val[2]>>, err |-> "InvalidEncoding"]
            ELSE Ok(data.rd, << [some |-> TRUE, label |-> chunk_label.val,
                                 chunk_type |-> ChunkType(tag.val),
                                 data |-> data.val[1]],
                               data.val[2] >>))))

----------------------------------------------------------------------------
(* FileReader (reader.rs 43-95) and Savegame (reader.rs 350-406).          *)

\* `file' stands for the content found at self.path
FileReader_new(f) == [file |-> f, position |-> 0, size |-> Len(f)]

\* start > size: `self.size - start` panics in a debug build; in a release
\* build it wraps and read_exact past the end of the file fails, which the
\* unwrap turns into a panic
FileReader_load(fr, start, size) ==
    IF size = 0 THEN Ok(fr, << >>)
    ELSE IF start > fr.size THEN Panic(fr, "OutOfBounds")
    ELSE Ok(fr, SubSeq(fr.file, start + 1, start + Min(size, fr.size - start)))

FileReader_read_bytes(fr, size) ==
    Then(FileReader_load(fr, fr.position, size), LAMBDA l :
        Ok([l.rd EXCEPT !.position = l.rd.position + size], l.val))

\* position > size: the subtraction panics in a debug build; in a release
\* build the wrapped length cannot be allocated
FileReader_read_leftover_bytes(fr) ==
    IF fr.position > fr.size THEN Panic(fr, "OutOfBounds")
    ELSE Then(FileReader_load(fr, fr.position, fr.size - fr.position), LAMBDA l :
            Ok([l.rd EXCEPT !.position = l.rd.size], l.val))

\* a variant reading the version little-endian
from_le_bytes(b) == b[2] * 256 + b[1]

\* u16::from_be_bytes
from_be_bytes(b) == b[1] * 256 + b[2]

OTTX == <<79, 84, 84, 88>>
OTTZ == <<79, 84, 84, 90>>
OTTN == <<79, 84, 84, 78>>
OTTD == <<79, 84, 84, 68>>

\* the arm of load's match the header selects
CompressionOf(header) ==
    CASE header = OTTX -> "Lzma"
      [] header = OTTZ -> "Zlib"
      [] header = OTTN -> "None"
      [] header = OTTD -> "Lzo"
      [] OTHER -> "Unknown"

decompress_none(data) == data

\* flate2 and xz2 are external: c is what the decoder yields for `data',
\* [ok |-> FALSE] when read_to_end fails and the unwrap panics
decompress_zlib(data, c) == c

decompress_lzma(data, c) == c

\* a FileReader result with the Savegame `self' beside the reader
WithSelf(res, s) == [res EXCEPT !.rd = [fr |-> res.rd, self |-> s]]

\* the match of load on the header: `data' is the result of
\* read_leftover_bytes, c what the external decoder yields
LoadMatch(kind, data, c) ==
    CASE kind = "Lzma" ->
            IF decompress_lzma(data.val, c).ok
            THEN Ok([data.rd EXCEPT !.self.data = decompress_lzma(data.val, c).bytes], kind)
            ELSE Panic(data.rd, "DecompressionError")
      [] kind = "Zlib" ->
            IF decompress_zlib(data.val, c).ok
            THEN Ok([data.rd EXCEPT !.self.data = decompress_zlib(data.val, c).bytes], kind)
            ELSE Panic(data.rd, "DecompressionError")
      [] kind = "None" -> Ok([data.rd EXCEPT !.self.data = decompress_none(data.val)], kind)
      [] kind = "Lzo" -> Panic(data.rd, "UnsupportedFormat")
      [] kind = "Unknown" -> Panic(data.rd, "UnknownFormat")

\* rd.self is the Savegame after the call, val the match arm taken.  The
\* version is assigned before the last reads and before the header is
\* matched; try_into fails on fewer than 2 version bytes.
Savegame_load(s, f, c) ==
    Then(WithSelf(FileReader_read_bytes(FileReader_new(f), 4), s), LAMBDA header :
    Then(WithSelf(FileReader_read_bytes(header.rd.fr, 2), s), LAMBDA version_bytes :
        IF Len(version_bytes.val) # 2 THEN Panic(version_bytes.rd, "ConversionError")
        ELSE Then(WithSelf(FileReader_read_bytes(version_bytes.rd.fr, 2),
                           [s EXCEPT !.version = from_be_bytes(version_bytes.val)]),
                  LAMBDA skip :
             Then(WithSelf(FileReader_read_leftover_bytes(skip.rd.fr), skip.rd.self),
                  LAMBDA data : LoadMatch(CompressionOf(header.val), data, c)))))

Savegame_new == [version |-> 0, data |-> << >>]

----------------------------------------------------------------------------
(* The canonical gamma encoder (the inverse read_gamma is read against).   *)

\* the number of bytes the canonical encoding of n takes
GammaByteCount(n) ==
    IF n.hi = 0 /\ n.lo <= 127 THEN 1
    ELSE IF n.hi = 0 /\ n.lo <= 16383 THEN 2
    ELSE IF n.hi <= 31 THEN 3
    ELSE IF n.hi <= 4095 THEN 4
    ELSE 5

EncodeGamma(n) ==
    CASE GammaByteCount(n) = 1 -> <<n.lo>>
      [] GammaByteCount(n) = 2 -> <<128 + n.lo \div 256, n.lo % 256>>
      [] GammaByteCount(n) = 3 -> <<192 + n.hi, n.lo \div 256, n.lo % 256>>
      [] GammaByteCount(n) = 4 ->
            <<224 + n.hi \div 256, n.hi % 256, n.lo \div 256, n.lo % 256>>
      [] GammaByteCount(n) = 5 ->
            <<240, n.hi \div 256, n.hi % 256, n.lo \div 256, n.lo % 256>>

----------------------------------------------------------------------------
(* The cursor specification: a DataReader over a buffer that holds MaxPad  *)
(* or fewer leading bytes, the canonical encoding of a value, and a tail.  *)

GammaInputs ==
    { U32(0, 0), U32(0, 1), U32(0, 127),
      U32(0, 128), U32(0, 200), U32(0, 16383),
      U32(0, 16384), U32(0, 49344), U32(0, 65535), U32(1, 0), U32(31, 65535),
      U32(32, 0), U32(256, 0), U32(3008, 49344), U32(4095, 65535),
      U32(4096, 0), U32(32767, 65535), U32(32768, 0), U32(49344, 49344),
      U32(65535, 65535) }

PadBytes(p) == [i \in 1..p |-> 255]

Tails == { << >>, <<129>> }

NoRet == [op |-> "none", arg |-> 0, from |-> 0, val |-> << >>]
NoChunk == [some |-> FALSE, label |-> << >>, chunk_type |-> "none", data |-> << >>]
NotSaved == [written |-> FALSE, bytes |-> << >>]

CursorInit ==
    /\ \E n \in GammaInputs, p \in 0..MaxPad, t \in Tails :
          reader = DataReader_new(PadBytes(p) \o EncodeGamma(n) \o t)
    /\ file = << >>
    /\ codec = [ok |-> FALSE, bytes |-> << >>]
    /\ sg = Savegame_new
    /\ saved = NotSaved
    /\ ret = NoRet
    /\ chunk = NoChunk
    /\ keys = NoKeys
    /\ status = "ok"

\* the effect of a call on the cursor
Call(op, arg, res) ==
    /\ status = "ok"
    /\ reader' = res.rd
    /\ ret' = [op |-> op, arg |-> arg, from |-> reader.position, val |-> res.val]
    /\ status' = IF res.err = "none" THEN "ok" ELSE res.err
    /\ UNCHANGED <<file, codec, sg, saved, chunk, keys>>

ReadByte == Call("read_byte", 0, DataReader_read_byte(reader))

ReadBytes == \E k \in 0..MaxRead : Call("read_bytes", k, DataReader_read_bytes(reader, k))

ReadLeftoverBytes == Call("read_leftover_bytes", 0, DataReader_read_leftover_bytes(reader))

ReadAllBytes == Call("read_all_bytes", 0, DataReader_read_all_bytes(reader))

ReadGamma == Call("read_gamma", 0, DataReader_read_gamma(reader))

CursorNext == ReadByte \/ ReadBytes \/ ReadLeftoverBytes \/ ReadAllBytes \/ ReadGamma

SpecCursor == CursorInit /\ [][CursorNext]_vars

\* the canonical encoding of n lies in data at offset `at'
EncodedAt(data, at, n) ==
    /\ at + GammaByteCount(n) <= Len(data)
    /\ SubSeq(data, at + 1, at + GammaByteCount(n)) = EncodeGamma(n)

\* C1: read_gamma, called with the cursor on the first byte of the canonical
\* encoding of n, returns n and the byte count documented for n's magnitude,
\* and advances the position by exactly that count.
C1_GammaRoundTrip ==
    \A n \in GammaInputs :
        (ret.op = "read_gamma" /\ EncodedAt(reader.data, ret.from, n)) =>
            /\ status = "ok"
            /\ ret.val = <<n, GammaByteCount(n)>>
            /\ reader.position = ret.from + GammaByteCount(n)

\* a 5-byte value above 2^31 was decoded at a cursor that had been advanced
C1_Witness ==
    /\ ret.op = "read_gamma" /\ ret.from > 0
    /\ EncodedAt(reader.data, ret.from, U32(65535, 65535))
    /\ status = "ok"
    /\ ret.val = <<U32(65535, 65535), 5>>

\* C4: a read that needs more bytes than remain fails with OutOfBounds
\* instead of returning a shortened or empty result, in particular any read
\* of one or more bytes after read_leftover_bytes.
C4_ShortReadFails ==
    /\ (ret.op = "read_byte" /\ reader.size - ret.from < 1) => status = "OutOfBounds"
    /\ (ret.op = "read_bytes" /\ ret.arg > reader.size - ret.from) => status = "OutOfBounds"
    /\ (ret.op = "read_gamma" /\ reader.size - ret.from < 1) => status = "OutOfBounds"

----------------------------------------------------------------------------
(* The chunk specification: a DataHandler over a decompressed body.  Its   *)
(* only caller, process, reads one chunk; here the caller may go on.       *)

MaxChunks == 2

Field(name, type, is_list, sub) ==
    [name |-> name, type |-> type, is_list |-> is_list, sub |-> sub]

TypeTag(type) ==
    CASE type = "I8" -> 1 [] type = "U8" -> 2 [] type = "I16" -> 3
      [] type = "U16" -> 4 [] type = "I32" -> 5 [] type = "U32" -> 6
      [] type = "I64" -> 7 [] type = "U64" -> 8 [] type = "StringID" -> 9
      [] type = "String" -> 10 [] type = "Struct" -> 11

\* a header block as the specification lays it out: each field's tag, name
\* length and name, a Struct field's own list right after it, then 0
RECURSIVE EncodeFields(_)
EncodeFields(fields) ==
    IF Len(fields) = 0 THEN << >>
    ELSE LET f == Head(fields) IN
         <<TypeTag(f.type) + (IF f.is_list THEN 16 ELSE 0)>>
            \o EncodeGamma(U32(0, Len(f.name))) \o f.name
            \o (IF f.type = "Struct" THEN EncodeFields(f.sub) \o <<0>> ELSE << >>)
            \o EncodeFields(Tail(fields))

EncodeSchema(fields) == EncodeFields(fields) \o <<0>>

\* names: "id", "name", "s", "t", "a", "b", "c", and the two-byte "e acute"
N_id == <<105, 100>>
N_name == <<110, 97, 109, 101>>
N_s == <<115>>
N_t == <<116>>
N_a == <<97>>
N_b == <<98>>
N_c == <<99>>
N_e == <<195, 169>>

FlatSchemas ==
    { << >>,
      <<Field(N_id, "U32", FALSE, << >>)>>,
      <<Field(N_id, "U32", FALSE, << >>), Field(N_name, "String", FALSE, << >>)>>,
      <<Field(N_name, "String", FALSE, << >>), Field(N_id, "U32", FALSE, << >>)>>,
      <<Field(N_id, "U32", FALSE, << >>), Field(N_id, "String", FALSE, << >>)>>,
      <<Field(N_a, "I16", TRUE, << >>), Field(N_e, "StringID", FALSE, << >>)>> }

StructSchemas ==
    { <<Field(N_s, "Struct", FALSE, <<Field(N_a, "U8", FALSE, << >>)>>),
        Field(N_b, "U8", FALSE, << >>)>>,
      <<Field(N_s, "Struct", TRUE, << >>)>>,
      <<Field(N_id, "I32", FALSE, << >>),
        Field(N_s, "Struct", FALSE,
              <<Field(N_t, "Struct", FALSE, <<Field(N_a, "I8", FALSE, << >>)>>),
                Field(N_c, "U16", TRUE, << >>)>>),
        Field(N_b, "U64", FALSE, << >>)>> }

Schemas == FlatSchemas \cup StructSchemas

TEST == <<84, 69, 83, 84>>

Labels == { TEST, <<65, 255, 66, 67>> }

\* a Table chunk: label, kind 3, the header block's length and bytes, and a
\* data block of length 0
TableChunk(label, header) ==
    label \o <<3>> \o EncodeGamma(U32(0, Len(header))) \o header \o EncodeGamma(U32(0, 0))

\* chunks of the other kinds, and of kinds that do not exist
KindChunk(label, tag) == label \o <<tag>>

ChunkBytes ==
    { TableChunk(l, EncodeSchema(sc)) : l \in Labels, sc \in Schemas }
      \cup { TableChunk(TEST, h) : h \in { << >>, <<12, 1, 97, 0>>, <<2, 1, 255, 0>>,
                                            <<6, 2, 105, 100>> } }
      \cup { KindChunk(l, t) : l \in Labels, t \in {0, 1, 2, 4, 5, 255} }

RECURSIVE Streams(_)
Streams(k) ==
    IF k = 0 THEN { << >> }
    ELSE { c \o st : c \in ChunkBytes, st \in Streams(k - 1) } \cup Streams(k - 1)

Prefixes(S) == UNION { { SubSeq(b, 1, k) : k \in 0..Len(b) } : b \in S }

Bodies == Streams(MaxChunks) \cup Prefixes(ChunkBytes)

NoFile == << >>
NoCodec == [ok |-> FALSE, bytes |-> << >>]

ChunkInit ==
    /\ \E body \in Bodies :
          /\ sg = [version |-> 0, data |-> body]
          /\ reader = DataReader_new(body)
    /\ file = NoFile
    /\ codec = NoCodec
    /\ saved = NotSaved
    /\ ret = NoRet
    /\ chunk = NoChunk
    /\ keys = NoKeys
    /\ status = "ok"

\* the chunk and the header map a read_chunk result carries
ChunkOf(res) == IF res.err = "none" THEN res.val[1] ELSE NoChunk
KeysOf(res) == IF Len(res.val) = 2 THEN res.val[2] ELSE NoKeys

ReadChunk ==
    /\ status = "ok"
    /\ LET res == read_chunk(reader) IN
          /\ reader' = res.rd
          /\ ret' = [op |-> "read_chunk", arg |-> 0, from |-> reader.position, val |-> << >>]
          /\ chunk' = ChunkOf(res)
          /\ keys' = KeysOf(res)
          /\ status' = IF res.err = "none" THEN "ok" ELSE res.err
    /\ UNCHANGED <<file, codec, sg, saved>>

ChunkNext == ReadChunk

SpecChunk == ChunkInit /\ [][ChunkNext]_vars

\* the kind tag of the chunk the last read_chunk began at, -1 when the body
\* ends before it
TagRead == IF ret.from + 5 <= reader.size THEN reader.data[ret.from + 5] ELSE -1

LabelRead == SubSeq(reader.data, ret.from + 1, ret.from + 4)

\* the map of a field list's own fields, a later field of a name replacing
\* an earlier one
RECURSIVE FieldMap(_)
FieldMap(fields) ==
    IF Len(fields) = 0 THEN EmptyMap
    ELSE LET f == fields[Len(fields)] IN
         MapInsert(FieldMap(SubSeq(fields, 1, Len(fields) - 1)), f.name, <<f.type, f.is_list>>)

TableRead(sc) ==
    /\ ret.op = "read_chunk" /\ chunk.some /\ chunk.chunk_type = "Table"
    /\ chunk.data = EncodeSchema(sc)

\* C5: a header block with a Struct field is decoded with the struct's own
\* list taken from the bytes right after the field, and the parent's
\* remaining fields are decoded after the nested list's terminator: the
\* top-level schema holds the parent's fields and only those.
C5_NestedStructResumes ==
    \A sc \in StructSchemas :
        TableRead(sc) => (keys.some /\ keys.map = FieldMap(sc))

\* C6: label, kind 3, header length 0, data length 0 reads as a Table chunk
\* with that label and an empty schema.
C6_EmptyHeaderBlock ==
    (ret.op = "read_chunk" /\ ret.from + 7 <= reader.size /\ IsUtf8(LabelRead)
        /\ SubSeq(reader.data, ret.from + 5, ret.from + 7) = <<3, 0, 0>>) =>
            /\ status = "ok"
            /\ chunk = [some |-> TRUE, label |-> LabelRead, chunk_type |-> "Table",
                        data |-> << >>]
            /\ keys = [some |-> TRUE, map |-> EmptyMap]

\* C7: kinds 0, 1 and 2 fail with UnsupportedChunkKind, a kind
\* outside 0-4 fails with UnknownChunkKind, and no chunk is returned.
C7_ThreeKindsUnsupported ==
    (ret.op = "read_chunk" /\ TagRead >= 0) =>
        /\ TagRead \in {0, 1, 2} => (status = "UnsupportedChunkKind" /\ ~chunk.some)
        /\ TagRead > 4 => (status = "UnknownChunkKind" /\ ~chunk.some)

\* C8: the schema holds exactly one field per declaration read, in the
\* order declared, so that header blocks declaring different field
\* sequences give different schemas.
C8_SchemaOrdered ==
    \A sc \in FlatSchemas :
        TableRead(sc) =>
            /\ keys.some
            /\ Cardinality(DOMAIN keys.map) = Len(sc)
            /\ \A other \in FlatSchemas \ {sc} :
                  read_table_entries(DataReader_new(EncodeSchema(other))).val # keys.map

\* C10: read_chunk called with no bytes left ends normally (end of stream),
\* not with an out-of-bounds or other failure.
C10_EndOfStreamNormal ==
    (ret.op = "read_chunk" /\ ret.from = reader.size) => status = "ok"

----------------------------------------------------------------------------
(* The Savegame specification: new (the initial state), load, process and  *)
(* save on a file; save writes to the Savegame's own path or to another.   *)

Magics == { OTTN, OTTZ, OTTX, OTTD, <<88, 88, 88, 88>> }

VersionBytes == { <<0, 1>>, <<1, 44>> }

ReservedBytes == { <<0, 0>>, <<7, 9>> }

RECURSIVE SeqsUpTo(_, _)
SeqsUpTo(S, k) ==
    IF k = 0 THEN { << >> }
    ELSE SeqsUpTo(S, k - 1) \cup { <<x>> \o q : x \in S, q \in SeqsUpTo(S, k - 1) }

Payloads ==
    SeqsUpTo({0, 84}, MaxPayload)
      \cup { TEST \o <<0>>, TEST \o <<3, 0, 0>>,
             TableChunk(TEST, EncodeSchema(<<Field(N_id, "U32", FALSE, << >>)>>)) }

Headers == { m \o v \o r : m \in Magics, v \in VersionBytes, r \in ReservedBytes }

Files == { h \o p : h \in Headers, p \in Payloads } \cup Prefixes(Headers)

\* what the external decoder may yield for a compressed payload
DecoderResults ==
    { NoCodec } \cup { [ok |-> TRUE, bytes |-> b] : b \in { << >>, <<5, 6>>, TEST \o <<4>> } }

Compressed(f) == Len(f) >= 8 /\ SubSeq(f, 1, 4) \in {OTTZ, OTTX}

SavegameInit ==
    /\ file \in Files
    /\ codec \in (IF Compressed(file) THEN DecoderResults ELSE { NoCodec })
    /\ sg = Savegame_new
    /\ saved = NotSaved
    /\ reader = DataReader_new(<< >>)
    /\ ret = NoRet
    /\ chunk = NoChunk
    /\ keys = NoKeys
    /\ status = "ok"

Load ==
    /\ status = "ok"
    /\ LET res == Savegame_load(sg, file, codec) IN
          /\ sg' = res.rd.self
          /\ ret' = [op |-> "load", arg |-> 0, from |-> 0, val |-> res.val]
          /\ status' = IF res.err = "none" THEN "ok" ELSE res.err
    /\ UNCHANGED <<file, codec, saved, reader, chunk, keys>>

\* load, then one read_chunk of a DataHandler over the loaded data
ProcessChunk(res) ==
    IF res.err # "none" THEN [rd |-> reader, val |-> << >>, err |-> res.err]
    ELSE read_chunk(DataReader_new(res.rd.self.data))

Process ==
    /\ status = "ok"
    /\ LET res == Savegame_load(sg, file, codec)
           rc == ProcessChunk(res)
       IN /\ sg' = res.rd.self
          /\ reader' = rc.rd
          /\ chunk' = ChunkOf(rc)
          /\ keys' = KeysOf(rc)
          /\ ret' = [op |-> "process", arg |-> 0, from |-> 0, val |-> res.val]
          /\ status' = IF rc.err = "none" THEN "ok" ELSE rc.err
    /\ UNCHANGED <<file, codec, saved>>

\* File::create(path) and write_all(&self.data)
Save ==
    /\ status = "ok"
    /\ \E path \in {"same", "other"} :
          /\ file' = IF path = "same" THEN sg.data ELSE file
          /\ saved' = IF path = "other" THEN [written |-> TRUE, bytes |-> sg.data] ELSE saved
          /\ ret' = [op |-> "save", arg |-> path, from |-> 0, val |-> << >>]
    /\ UNCHANGED <<codec, sg, reader, chunk, keys, status>>

SavegameNext == Load \/ Process \/ Save

SpecSavegame == SavegameInit /\ [][SavegameNext]_vars

IsOTTN(f) == Len(f) >= 8 /\ SubSeq(f, 1, 4) = OTTN

\* C2: loading a file made of OTTN, a big-endian version v, 2 reserved bytes
\* and a payload (by load, or by the load that process begins with) gives
\* version v (1 for bytes 0, 1), the None arm of the match, and a body equal
\* to the payload, whatever the reserved bytes and the payload.
C2_OpenUncompressed ==
    [][ (ret'.op \in {"load", "process"} /\ IsOTTN(file)) =>
            /\ ret'.op = "load" => status' = "ok"
            /\ sg'.version = file[5] * 256 + file[6]
            /\ (SubSeq(file, 5, 6) = <<0, 1>> => sg'.version = 1)
            /\ ret'.val = "None"
            /\ sg'.data = SubSeq(file, 9, Len(file)) ]_vars

\* version 1 with nonzero reserved bytes and a payload was loaded
C2_Witness ==
    /\ ret.op = "load" /\ status = "ok" /\ IsOTTN(file)
    /\ SubSeq(file, 5, 8) = <<0, 1, 7, 9>>
    /\ sg.version = 1 /\ ret.val = "None"
    /\ Len(sg.data) > 0 /\ sg.data = SubSeq(file, 9, Len(file))

\* C3: loading an input of 4 bytes or more that begins OTTD fails with
\* UnsupportedFormat, and one that begins with no known magic fails with
\* UnknownFormat; no body is produced.
C3_MagicRejected ==
    [][ (ret'.op = "load" /\ Len(file) >= 4) =>
            /\ SubSeq(file, 1, 4) = OTTD =>
                  (status' = "UnsupportedFormat" /\ sg'.data = sg.data)
            /\ SubSeq(file, 1, 4) \notin {OTTN, OTTZ, OTTX, OTTD} =>
                  (status' = "UnknownFormat" /\ sg'.data = sg.data) ]_vars

\* the decompressed content of a well-formed file
BodyOf(f, c) == IF Compressed(f) THEN c.bytes ELSE SubSeq(f, 9, Len(f))

WellFormed(f, c) == IsOTTN(f) \/ (Compressed(f) /\ c.ok)

\* C9: in every state a Savegame reaches through new, load/process and
\* save, its body is the decompressed content of the file at its path, and
\* what save wrote is that content.
C9_BodyIsDecompressed ==
    (status = "ok" /\ WellFormed(file, codec)) =>
        /\ sg.data = BodyOf(file, codec)
        /\ saved.written => saved.bytes = BodyOf(file, codec)

====
